---------------------------- MODULE Spec2Model ----------------------------
(***************************************************************************)
(* Model of the bulk streaming engine of cannelloni (src/src/cannelloni.c):*)
(* do_stream, its transfer pool (submit_transfer, transfer_complete,       *)
(* free_transfer, abort_transfers, prepare_out_buffer), the signal handler *)
(* handle_signalfd and the exit status main derives from do_stream         *)
(* (Spec); main from the parsed command line on: the checks, the packing   *)
(* of firmware_config, the opening of the device and the upload of the     *)
(* firmware in one or two stages, followed by the stream (MainSpec); and   *)
(* the packing alone over every combination of options (ConfigSpec).       *)
(*                                                                         *)
(* libusb, stdin/stdout and the allocator are the environment: their       *)
(* outcomes (completion status and length, rejected submission, failed     *)
(* allocation, short write, poll failure, signals) are inputs chosen with  *)
(* \E.  Completion callbacks run only from libusb_handle_events_timeout,   *)
(* i.e. only inside an iteration of the event loop.                        *)
(***************************************************************************)
EXTENDS Integers, FiniteSets, TLC

\* ------------------------------------------------------------ bounds
\* Pool size: NUM_TRANSFERS is 32 in the source (line 83); the model runs a
\* smaller pool.
NUM_TRANSFERS == 3
\* block_size (option -b, default 16384), in bytes.
BlockSize == 2
\* Largest finite byte budget (option -n), in blocks.
MaxBudgetBlocks == 3
\* Cap on the number of accepted libusb_submit_transfer calls of one run.
MaxSubmits == 4
\* Width of the unsigned counters (64 in the source), in bits.
WordBits == 10

\* ------------------------------------------------------------ constants
Word == 2 ^ WordBits
UNLIMITED == Word - 1
NULL == -1
EXIT_SUCCESS == 0
EXIT_FAILURE == 1
\* exit(-1) as the parent sees it
EXIT_FORCED == 255
MAX_SIGNALS == 5
\* 0x1003
FirmwareConfigAddr == 4099
MHZ12 == 0
MHZ24 == 1
MHZ48 == 2

Slots == 0 .. (NUM_TRANSFERS - 1)
\* The transfer allocated by iteration i of the fill loop is named i.
Ids == Slots
Budgets == {k * BlockSize : k \in 1 .. MaxBudgetBlocks} \cup {UNLIMITED}
MaxSrc == MaxBudgetBlocks * BlockSize + 1
\* LIBUSB_TRANSFER_*: "ERROR" stands for every status other than the three
\* named ones (ERROR, STALL, NO_DEVICE, OVERFLOW), which the code never
\* tells apart.
TransferStatus == {"COMPLETED", "TIMED_OUT", "ERROR", "CANCELLED"}
\* What a build can do when a freed transfer is handed to
\* libusb_submit_transfer.
UBOutcomes == {"accepted", "rejected", "crash"}

Min(a, b) == IF a < b THEN a ELSE b

VARIABLES
    pc,               \* position in do_stream / the process
    i,                \* index of the fill loop (line 537)
    state,            \* struct cannelloni_state (lines 87-99, 456-468)
    num_bytes_limit,  \* do_stream's parameter (line 448)
    xfer,             \* the libusb_transfer objects, by name
    src,              \* bytes still readable from stdin
    ret,              \* do_stream's ret (line 453)
    g,                \* history of the run (not program state)
    ev,               \* the last handler that ran, with its inputs
    boot,             \* main's bootstrap: -l given, and what was done to
                      \* the device before do_stream (history)
    opts,             \* main's locals set from the options (lines 617-641)
    firmware_config   \* the global of line 102

vars == <<pc, i, state, num_bytes_limit, xfer, src, ret, g, ev, boot, opts,
          firmware_config>>

\* The part of the state the pool's functions read and write.
World == [state |-> state, xfer |-> xfer, src |-> src, g |-> g]

Commit(w) ==
    /\ state' = w.state
    /\ xfer' = w.xfer
    /\ src' = w.src
    /\ g' = w.g

NoEv == [op |-> "none", t |-> NULL, status |-> "none", actual |-> 0,
         abort0 |-> FALSE, fwrite_short |-> FALSE, sub_ok |-> TRUE,
         wrote |-> 0]

Outstanding(w) == {s \in Slots : w.state.transfers[s] # NULL}
InFlight(x) == {t \in Ids : x[t].owner = "device"}

\* ------------------------------------------------------------ libusb
\* libusb_submit_transfer: an accepted transfer belongs to the USB
\* subsystem until its callback runs.  g records the call.
libusb_submit_transfer(w, t, ok) ==
    LET w1 == [w EXCEPT !.g.sub_abort = @ \/ w.state.abort,
                        !.g.uaf = @ \/ (w.xfer[t].frees > 0)]
    IN IF ok
       THEN [w1 EXCEPT !.xfer[t].owner = "device",
                       !.xfer[t].cancel = FALSE,
                       !.g.nSubmits = @ + 1]
       ELSE w1

\* libusb_cancel_transfer: asynchronous, only marks the transfer.
libusb_cancel_transfer(w, t) ==
    [w EXCEPT !.xfer[t].cancel = TRUE]

\* ------------------------------------------------------------ the pool
\* free_transfer without the loop of lines 298-303.
free_transfer_leaves_slot(w, t) ==
    [w EXCEPT !.xfer[t].owner = "freed",
              !.xfer[t].frees = @ + 1,
              !.state.submitted_transfers = @ - 1]

free_transfer(w, t) ==
    LET hit == {s \in Slots : w.state.transfers[s] = t}
        first == IF hit = {} THEN NULL
                 ELSE CHOOSE s \in hit : \A r \in hit : s <= r
    IN [w EXCEPT !.xfer[t].owner = "freed",
                 !.xfer[t].frees = @ + 1,
                 !.state.transfers =
                     [s \in Slots |-> IF s = first THEN NULL ELSE @[s]],
                 !.state.submitted_transfers = @ - 1]

abort_transfers(w) ==
    LET held == {w.state.transfers[s] : s \in Outstanding(w)}
    IN [w EXCEPT !.state.abort = TRUE,
                 !.xfer = [t \in Ids |->
                             IF t \in held
                             THEN libusb_cancel_transfer(w, t).xfer[t]
                             ELSE @[t]],
                 !.g.abortK = IF w.state.abort THEN @
                              ELSE Cardinality(Outstanding(w))]

\* fread returns min(block_size, what stdin still holds).
prepare_out_buffer(w) ==
    IF ~w.state.file
    THEN [w |-> w, n |-> w.state.block_size]
    ELSE LET num_bytes_read == Min(w.state.block_size, w.src)
             w1 == [w EXCEPT !.src = @ - num_bytes_read]
         IN [w |-> IF num_bytes_read # w.state.block_size
                   THEN [w1 EXCEPT !.state.total_bytes_left_to_transfer =
                                       num_bytes_read]
                   ELSE w1,
             n |-> num_bytes_read]

submit_transfer(w, t, alloc, sub_ok) ==
    IF alloc # "ok"
    THEN [w |-> [w EXCEPT !.g.fatal = TRUE], transfer |-> NULL]
    ELSE LET p == IF ~w.state.direction_in
                  THEN prepare_out_buffer(w)
                  ELSE [w |-> w, n |-> w.state.block_size]
             filled == [p.w EXCEPT !.xfer[t].owner = "pool",
                                   !.xfer[t].length = p.n]
             sub == libusb_submit_transfer(filled, t, sub_ok)
         IN IF ~sub_ok
            THEN [w |-> [sub EXCEPT !.xfer[t].owner = "freed",
                                    !.xfer[t].frees = @ + 1,
                                    !.g.fatal = TRUE],
                  transfer |-> NULL]
            ELSE [w |-> [sub EXCEPT
                           !.state.total_bytes_left_to_transfer =
                               (@ - p.n) % Word,
                           !.state.submitted_transfers = @ + 1],
                  transfer |-> t]

\* transfer_complete with line 347 testing for LIBUSB_TRANSFER_COMPLETED
\* alone: a timed-out transfer is fatal.
transfer_complete_timeout_fatal(w, t, status, actual, fwrite_short, sub_ok, ub, garbage) ==
    IF w.state.abort
    THEN free_transfer([w EXCEPT !.g.abort_cbs = @ + 1], t)
    ELSE IF status # "COMPLETED" \/ actual = 0
    THEN abort_transfers(free_transfer([w EXCEPT !.g.fatal = TRUE], t))
    ELSE IF w.state.direction_in /\ w.state.file /\ fwrite_short
    THEN \* lines 356-360 do not return: lines 362-371 run on the freed
         \* transfer; what they read and whether the submission is
         \* accepted is undefined.
         LET w1 == abort_transfers(free_transfer([w EXCEPT !.g.fatal = TRUE], t))
             w2 == [w1 EXCEPT !.state.total_bytes_transferred =
                                  (@ + garbage) % Word,
                              !.g.uaf = TRUE]
         IN CASE ub = "crash" ->
                    [w2 EXCEPT !.g.crashed = TRUE]
              [] ub = "accepted" ->
                    libusb_submit_transfer(w2, t, TRUE)
              [] OTHER ->
                    abort_transfers(
                        free_transfer(libusb_submit_transfer(w2, t, FALSE), t))
    ELSE LET w1 == [w EXCEPT !.state.total_bytes_transferred =
                                 (@ + actual) % Word]
             p == IF ~w.state.direction_in
                  THEN prepare_out_buffer(w1)
                  ELSE [w |-> w1, n |-> w.xfer[t].length]
             w2 == [p.w EXCEPT !.xfer[t].length = p.n]
             sub == libusb_submit_transfer(w2, t, sub_ok)
         IN IF sub_ok
            THEN sub
            ELSE abort_transfers(
                     free_transfer([sub EXCEPT !.g.fatal = TRUE], t))

transfer_complete(w, t, status, actual, fwrite_short, sub_ok, ub, garbage) ==
    IF w.state.abort
    THEN free_transfer([w EXCEPT !.g.abort_cbs = @ + 1], t)
    ELSE IF (status # "COMPLETED" /\ status # "TIMED_OUT") \/ actual = 0
    THEN abort_transfers(free_transfer([w EXCEPT !.g.fatal = TRUE], t))
    ELSE IF w.state.direction_in /\ w.state.file /\ fwrite_short
    THEN \* lines 356-360 do not return: lines 362-371 run on the freed
         \* transfer; what they read and whether the submission is
         \* accepted is undefined.
         LET w1 == abort_transfers(free_transfer([w EXCEPT !.g.fatal = TRUE], t))
             w2 == [w1 EXCEPT !.state.total_bytes_transferred =
                                  (@ + garbage) % Word,
                              !.g.uaf = TRUE]
         IN CASE ub = "crash" ->
                    [w2 EXCEPT !.g.crashed = TRUE]
              [] ub = "accepted" ->
                    libusb_submit_transfer(w2, t, TRUE)
              [] OTHER ->
                    abort_transfers(
                        free_transfer(libusb_submit_transfer(w2, t, FALSE), t))
    ELSE LET w1 == [w EXCEPT !.state.total_bytes_transferred =
                                 (@ + actual) % Word]
             p == IF ~w.state.direction_in
                  THEN prepare_out_buffer(w1)
                  ELSE [w |-> w1, n |-> w.xfer[t].length]
             w2 == [p.w EXCEPT !.xfer[t].length = p.n]
             sub == libusb_submit_transfer(w2, t, sub_ok)
         IN IF sub_ok
            THEN sub
            ELSE abort_transfers(
                     free_transfer([sub EXCEPT !.g.fatal = TRUE], t))

\* ------------------------------------------------------------ firmware_config
Bit(v, k) == (v \div (2 ^ k)) % 2

RECURSIVE OrFrom(_, _, _)
OrFrom(a, b, k) ==
    IF k = 8 THEN 0
    ELSE (IF Bit(a, k) = 1 \/ Bit(b, k) = 1 THEN 2 ^ k ELSE 0)
         + OrFrom(a, b, k + 1)

RECURSIVE AndFrom(_, _, _)
AndFrom(a, b, k) ==
    IF k = 8 THEN 0
    ELSE (IF Bit(a, k) = 1 /\ Bit(b, k) = 1 THEN 2 ^ k ELSE 0)
         + AndFrom(a, b, k + 1)

\* | and & on uint8_t, tabulated.
OrTable == [a \in 0 .. 255 |-> [b \in 0 .. 255 |-> OrFrom(a, b, 0)]]
AndTable == [a \in 0 .. 255 |-> [b \in 0 .. 255 |-> AndFrom(a, b, 0)]]
Or(a, b) == OrTable[a][b]
And(a, b) == AndTable[a][b]
\* if (c) byte |= mask;
SetIf(c, byte, mask) == IF c THEN Or(byte, mask) ELSE byte

DefaultOpts ==
    [direction_in |-> TRUE,
     use_8bit_bus |-> FALSE,
     num_buffers |-> 4,
     run_async_bus |-> FALSE,
     use_external_ifclk |-> FALSE,
     use_48mhz_internal_clk |-> TRUE,
     enable_ifclk_output |-> FALSE,
     invert_ifclk |-> FALSE,
     cpu_mhz |-> MHZ48,
     enable_clkout_output |-> FALSE,
     invert_clkout |-> FALSE,
     invert_queue_full_pin |-> FALSE,
     invert_queue_empty_pin |-> FALSE,
     invert_queue_slwr_pin |-> FALSE,
     invert_queue_slrd_pin |-> FALSE,
     invert_queue_sloe_pin |-> FALSE,
     invert_queue_pktend_pin |-> FALSE]

\* Every combination the options can set.
AllOpts ==
    [direction_in : BOOLEAN,
     use_8bit_bus : BOOLEAN,
     num_buffers : {2, 3, 4},
     run_async_bus : BOOLEAN,
     use_external_ifclk : BOOLEAN,
     use_48mhz_internal_clk : BOOLEAN,
     enable_ifclk_output : BOOLEAN,
     invert_ifclk : BOOLEAN,
     cpu_mhz : {MHZ12, MHZ24, MHZ48},
     enable_clkout_output : BOOLEAN,
     invert_clkout : BOOLEAN,
     invert_queue_full_pin : BOOLEAN,
     invert_queue_empty_pin : BOOLEAN,
     invert_queue_slwr_pin : BOOLEAN,
     invert_queue_slrd_pin : BOOLEAN,
     invert_queue_sloe_pin : BOOLEAN,
     invert_queue_pktend_pin : BOOLEAN]

\* memset of line 819.
ZeroConfig == [k \in 0 .. 5 |-> 0]

byte0(o) == IF o.direction_in THEN 18 ELSE 33

byte1(o) ==
    LET a == SetIf(~o.use_external_ifclk, 0, 2 ^ 7)
        b == SetIf(o.use_48mhz_internal_clk, a, 2 ^ 6)
        c == SetIf(o.enable_ifclk_output, b, 2 ^ 5)
        d == SetIf(o.invert_ifclk, c, 2 ^ 4)
        e == SetIf(o.run_async_bus, d, 2 ^ 3)
    IN Or(e, 3)

byte2(o) ==
    LET a == SetIf(o.direction_in, 2 ^ 7, 2 ^ 6)
        b == Or(a, 32)
    IN CASE o.num_buffers = 2 -> Or(b, 2)
         [] o.num_buffers = 3 -> Or(b, 3)
         [] OTHER -> b

\* Byte 3 without line 853.
byte3_ignores_bus_width(o) == IF o.direction_in THEN 13 ELSE 17

byte3(o) ==
    LET a == IF o.direction_in THEN 13 ELSE 17
    IN IF o.use_8bit_bus THEN And(a, 254) ELSE a

byte4(o) ==
    LET a == CASE o.cpu_mhz = MHZ12 -> 0
               [] o.cpu_mhz = MHZ24 -> Or(0, 8)
               [] OTHER -> Or(0, 16)
        b == SetIf(o.invert_clkout, a, 2 ^ 2)
    IN SetIf(o.enable_clkout_output, b, 2 ^ 1)

byte5(o) ==
    LET a == SetIf(o.invert_queue_full_pin, 0, 2 ^ 0)
        b == SetIf(o.invert_queue_empty_pin, a, 2 ^ 1)
        c == SetIf(o.invert_queue_slwr_pin, b, 2 ^ 2)
        d == SetIf(o.invert_queue_slrd_pin, c, 2 ^ 3)
        e == SetIf(o.invert_queue_sloe_pin, d, 2 ^ 4)
    IN SetIf(o.invert_queue_pktend_pin, e, 2 ^ 5)

\* Lines 818-877.
pack(o) ==
    [k \in 0 .. 5 |->
        CASE k = 0 -> byte0(o)
          [] k = 1 -> byte1(o)
          [] k = 2 -> byte2(o)
          [] k = 3 -> byte3(o)
          [] k = 4 -> byte4(o)
          [] OTHER -> byte5(o)]

\* The options read back from the six bytes, bit by bit as lines 821-877
\* lay them out.
decode(c) ==
    [direction_in |-> c[0] = 18,
     use_8bit_bus |-> Bit(c[3], 0) = 0,
     num_buffers |-> CASE And(c[2], 3) = 2 -> 2
                       [] And(c[2], 3) = 3 -> 3
                       [] OTHER -> 4,
     run_async_bus |-> Bit(c[1], 3) = 1,
     use_external_ifclk |-> Bit(c[1], 7) = 0,
     use_48mhz_internal_clk |-> Bit(c[1], 6) = 1,
     enable_ifclk_output |-> Bit(c[1], 5) = 1,
     invert_ifclk |-> Bit(c[1], 4) = 1,
     cpu_mhz |-> CASE And(c[4], 24) = 0 -> MHZ12
                   [] And(c[4], 24) = 8 -> MHZ24
                   [] OTHER -> MHZ48,
     enable_clkout_output |-> Bit(c[4], 1) = 1,
     invert_clkout |-> Bit(c[4], 2) = 1,
     invert_queue_full_pin |-> Bit(c[5], 0) = 1,
     invert_queue_empty_pin |-> Bit(c[5], 1) = 1,
     invert_queue_slwr_pin |-> Bit(c[5], 2) = 1,
     invert_queue_slrd_pin |-> Bit(c[5], 3) = 1,
     invert_queue_sloe_pin |-> Bit(c[5], 4) = 1,
     invert_queue_pktend_pin |-> Bit(c[5], 5) = 1]

\* ------------------------------------------------------------ bootstrap
Stages == {0, 1}
\* How one ezusb_load_ram can go: every control write succeeds, a write of
\* the upload fails, or the write that releases the reset fails.
LoadOutcomes == {"ok", "upload_failed", "reset_failed"}

InitBoot(two) ==
    [two_stage |-> two,
     usb_init |-> FALSE,
     opened |-> FALSE,
     ctrl_io |-> FALSE,
     load |-> [s \in Stages |-> [run |-> FALSE, status |-> 0]],
     cfg_writes |-> 0,
     cfg_addr |-> NULL,
     cfg_stages |-> {},
     cfg_failed |-> FALSE,
     write_failed |-> FALSE]

\* The history of a single-stage bootstrap in which nothing failed.
BootDone ==
    [InitBoot(FALSE) EXCEPT !.usb_init = TRUE,
                            !.opened = TRUE,
                            !.ctrl_io = TRUE,
                            !.load[0] = [run |-> TRUE, status |-> 0],
                            !.cfg_writes = 1,
                            !.cfg_addr = FirmwareConfigAddr,
                            !.cfg_stages = {0}]

\* pre_reset_callback: one ezusb_write of firmware_config to
\* FirmwareConfigAddr; its result is logged and dropped (the function is
\* void).  stage is the upload that called it.
pre_reset_callback(b, stage, cfg_ok) ==
    [b EXCEPT !.ctrl_io = TRUE,
              !.cfg_writes = @ + 1,
              !.cfg_addr = FirmwareConfigAddr,
              !.cfg_stages = @ \cup {stage},
              !.cfg_failed = @ \/ ~cfg_ok]

\* ezusb_load_ram: the records of the image are written by control
\* transfers; the callback, when there is one, is called once, right
\* before the write that releases the reset; 0 on success, negative once a
\* write of its own has failed.
ezusb_load_ram(b, stage, callback, outcome, cfg_ok) ==
    LET b1 == [b EXCEPT !.ctrl_io = TRUE]
        b2 == IF callback THEN pre_reset_callback(b1, stage, cfg_ok) ELSE b1
    IN CASE outcome = "upload_failed" ->
                [b |-> [b1 EXCEPT !.write_failed = TRUE], status |-> -1]
         [] outcome = "reset_failed" ->
                [b |-> [b2 EXCEPT !.write_failed = TRUE], status |-> -1]
         [] OTHER ->
                [b |-> b2, status |-> 0]

load_image(b, img_ok, stage, callback, outcome, cfg_ok) ==
    IF ~img_ok
    THEN [b |-> b, status |-> -1]
    ELSE ezusb_load_ram(b, stage, callback, outcome, cfg_ok)

\* ------------------------------------------------------------ Init
InitState(dir, file, limit) ==
    [abort |-> FALSE,
     num_signals |-> 0,
     direction_in |-> dir,
     file |-> file,
     block_size |-> BlockSize,
     total_bytes_left_to_transfer |-> limit,
     total_bytes_transferred |-> 0,
     transfers |-> [s \in Slots |-> NULL],
     submitted_transfers |-> 0]

InitG(s0) ==
    [nSubmits |-> 0, sub_abort |-> FALSE, uaf |-> FALSE, nominal |-> TRUE,
     fatal |-> FALSE, abortK |-> NULL, abort_cbs |-> 0, crashed |-> FALSE,
     src0 |-> s0]

Init ==
    /\ pc = "setup"
    /\ i = 0
    /\ num_bytes_limit \in Budgets
    /\ \E dir \in BOOLEAN, file \in BOOLEAN :
          /\ state = InitState(dir, file, num_bytes_limit)
          /\ src \in (IF ~dir /\ file THEN 0 .. MaxSrc ELSE {0})
    /\ xfer = [t \in Ids |->
                 [owner |-> "none", length |-> 0, cancel |-> FALSE, frees |-> 0]]
    /\ ret = FALSE
    /\ g = InitG(src)
    /\ ev = NoEv
    /\ boot = BootDone
    /\ opts = [DefaultOpts EXCEPT !.direction_in = state.direction_in]
    /\ firmware_config = pack(opts)

\* ------------------------------------------------------------ actions
\* do_stream lines 470-535: claim the interface, set the alternate setting,
\* get the poll fds, mask signals, open the signalfd, allocate.
Setup ==
    /\ pc = "setup"
    /\ \E ok \in BOOLEAN :
          /\ pc' = IF ok THEN "fill" ELSE "done"
          /\ g' = [g EXCEPT !.nominal = @ /\ ok]
          /\ ev' = [NoEv EXCEPT !.op = "setup", !.sub_ok = ok]
    /\ UNCHANGED <<opts, firmware_config, boot, i, state, num_bytes_limit,
                   xfer, src, ret>>

\* The fill loop without the budget test of line 537.
FillSubmit_ignores_budget ==
    /\ pc = "fill"
    /\ i # NUM_TRANSFERS
    /\ \E alloc \in {"ok", "no_buffer", "no_transfer"}, sub_ok \in BOOLEAN :
          LET r == submit_transfer(World, i, alloc, sub_ok)
              stored == [r.w EXCEPT !.state.transfers[i] = r.transfer]
              failed == r.transfer = NULL
              after == IF failed
                       THEN abort_transfers([stored EXCEPT !.g.nominal = FALSE])
                       ELSE stored
          IN /\ Commit(after)
             /\ pc' = IF failed THEN "loop_top" ELSE "fill"
             /\ i' = IF failed THEN i ELSE i + 1
             /\ ev' = [NoEv EXCEPT !.op = "submit_transfer", !.t = i,
                                   !.sub_ok = ~failed]
    /\ UNCHANGED <<opts, firmware_config, boot, num_bytes_limit, ret>>

\* One iteration of the fill loop, lines 537-542.
FillSubmit ==
    /\ pc = "fill"
    /\ i # NUM_TRANSFERS
    /\ state.total_bytes_left_to_transfer # 0
    /\ \E alloc \in {"ok", "no_buffer", "no_transfer"}, sub_ok \in BOOLEAN :
          LET r == submit_transfer(World, i, alloc, sub_ok)
              stored == [r.w EXCEPT !.state.transfers[i] = r.transfer]
              failed == r.transfer = NULL
              after == IF failed
                       THEN abort_transfers([stored EXCEPT !.g.nominal = FALSE])
                       ELSE stored
          IN /\ Commit(after)
             /\ pc' = IF failed THEN "loop_top" ELSE "fill"
             /\ i' = IF failed THEN i ELSE i + 1
             /\ ev' = [NoEv EXCEPT !.op = "submit_transfer", !.t = i,
                                   !.sub_ok = ~failed]
    /\ UNCHANGED <<opts, firmware_config, boot, num_bytes_limit, ret>>

FillEnd ==
    /\ pc = "fill"
    /\ (i = NUM_TRANSFERS \/ state.total_bytes_left_to_transfer = 0)
    /\ pc' = "loop_top"
    /\ ev' = [NoEv EXCEPT !.op = "fill_end"]
    /\ UNCHANGED <<opts, firmware_config, boot, i, state, num_bytes_limit,
                   xfer, src, ret, g>>

\* The while test holds and libusb_get_next_timeout and poll succeed
\* (lines 547-556): libusb_handle_events_timeout runs.
LoopTop ==
    /\ pc = "loop_top"
    /\ state.submitted_transfers # 0
    /\ pc' = "events"
    /\ ev' = [NoEv EXCEPT !.op = "poll"]
    /\ UNCHANGED <<opts, firmware_config, boot, i, state, num_bytes_limit,
                   xfer, src, ret, g>>

\* libusb_get_next_timeout or poll fails: break (lines 548-556), then the
\* teardown of lines 564-594.
PollFail ==
    /\ pc = "loop_top"
    /\ state.submitted_transfers # 0
    /\ pc' = "done"
    /\ ret' = TRUE
    /\ g' = [g EXCEPT !.fatal = TRUE, !.nominal = FALSE]
    /\ ev' = [NoEv EXCEPT !.op = "poll_failed"]
    /\ UNCHANGED <<opts, firmware_config, boot, i, state, num_bytes_limit,
                   xfer, src>>

\* The while test fails: lines 564-594.
LoopExit ==
    /\ pc = "loop_top"
    /\ state.submitted_transfers = 0
    /\ pc' = "done"
    /\ ret' = TRUE
    /\ ev' = [NoEv EXCEPT !.op = "loop_exit"]
    /\ UNCHANGED <<opts, firmware_config, boot, i, state, num_bytes_limit,
                   xfer, src, g>>

\* What the environment hands to one run of transfer_complete for transfer t.
\* Only the inputs the code reads on the path taken are varied: nothing under
\* the abort latch (the status, CANCELLED included, is not looked at), the
\* write to stdout only when it is attempted, the submission only when it
\* is reached, and the undefined outcome only after a short write.
CompletionInputs(t) ==
    LET none == [status |-> "none", actual |-> 0, fwrite_short |-> FALSE,
                 sub_ok |-> TRUE, ub |-> "none", garbage |-> 0]
    IN IF state.abort
       THEN {none}
       ELSE {in \in [status : TransferStatus \ {"CANCELLED"},
                     actual : 0 .. xfer[t].length,
                     fwrite_short : BOOLEAN,
                     sub_ok : BOOLEAN,
                     ub : UBOutcomes \cup {"none"},
                     garbage : 0 .. BlockSize] :
               LET good == in.status # "ERROR" /\ in.actual # 0
                   writes == good /\ state.direction_in /\ state.file
                   short == writes /\ in.fwrite_short
               IN /\ in.fwrite_short => writes
                  /\ ~in.sub_ok => (good /\ ~short)
                  /\ (in.ub # "none") <=> short
                  /\ in.garbage # 0 => short}

\* The fwrite of line 356 asking for the whole buffer, transfer->length.
sink_write_whole_buffer(w, t, status, actual, fwrite_short) ==
    IF w.state.abort
       \/ (status # "COMPLETED" /\ status # "TIMED_OUT") \/ actual = 0
       \/ ~(w.state.direction_in /\ w.state.file)
    THEN 0
    ELSE IF fwrite_short THEN w.xfer[t].length - 1 ELSE w.xfer[t].length

\* The bytes one run of transfer_complete writes to stdout: none on the
\* paths that return before line 354, in HOST_TO_DEVICE direction and
\* without a sink; else the fwrite of line 356, asked for actual_length
\* bytes.  A short write is one byte short here: the code compares the
\* count with actual_length and reads nothing else of it.
sink_write(w, t, status, actual, fwrite_short) ==
    IF w.state.abort
       \/ (status # "COMPLETED" /\ status # "TIMED_OUT") \/ actual = 0
       \/ ~(w.state.direction_in /\ w.state.file)
    THEN 0
    ELSE IF fwrite_short THEN actual - 1 ELSE actual

\* libusb_handle_events_timeout delivers the completion of one transfer in
\* flight and runs its callback.
TransferComplete ==
    /\ pc = "events"
    /\ state.abort \/ g.nSubmits < MaxSubmits
    /\ \E t \in InFlight(xfer) :
       \E in \in CompletionInputs(t) :
          LET w0 == [World EXCEPT
                       !.xfer[t].owner = "pool",
                       !.g.nominal = @ /\ (state.abort \/
                                            (/\ in.status = "COMPLETED"
                                             /\ in.actual = xfer[t].length
                                             /\ ~in.fwrite_short
                                             /\ in.sub_ok))]
              w1 == transfer_complete(w0, t, in.status, in.actual,
                                      in.fwrite_short, in.sub_ok, in.ub,
                                      in.garbage)
          IN /\ Commit(w1)
             /\ pc' = IF w1.g.crashed THEN "crashed" ELSE pc
             /\ ev' = [op |-> "transfer_complete", t |-> t,
                       status |-> in.status, actual |-> in.actual,
                       abort0 |-> state.abort,
                       fwrite_short |-> in.fwrite_short,
                       sub_ok |-> in.sub_ok,
                       wrote |-> sink_write(w0, t, in.status, in.actual,
                                            in.fwrite_short)]
    /\ UNCHANGED <<opts, firmware_config, boot, i, num_bytes_limit, ret>>

\* handle_signalfd without the test of line 438: every signal aborts.
HandleSignal_never_forced ==
    /\ pc = "events"
    /\ Commit(abort_transfers([World EXCEPT
                                  !.state.num_signals = (@ + 1) % MAX_SIGNALS,
                                  !.g.nominal = FALSE]))
    /\ pc' = "loop_top"
    /\ ev' = [NoEv EXCEPT !.op = "handle_signalfd"]
    /\ UNCHANGED <<opts, firmware_config, boot, i, num_bytes_limit, ret>>

\* handle_signalfd, lines 432-446, called when the signalfd is readable
\* after the events were handled (lines 560-561).  A failed read of the
\* signal record returns without effect, which is EventsDone.
HandleSignal ==
    /\ pc = "events"
    /\ LET n == state.num_signals + 1
           w0 == [World EXCEPT !.state.num_signals = n,
                               !.g.nominal = FALSE]
       IN IF n >= MAX_SIGNALS
          THEN /\ Commit(w0)
               /\ pc' = "killed"
          ELSE /\ Commit(abort_transfers(w0))
               /\ pc' = "loop_top"
    /\ ev' = [NoEv EXCEPT !.op = "handle_signalfd"]
    /\ UNCHANGED <<opts, firmware_config, boot, i, num_bytes_limit, ret>>

\* The signalfd is not readable: back to the while test.
EventsDone ==
    /\ pc = "events"
    /\ pc' = "loop_top"
    /\ ev' = [NoEv EXCEPT !.op = "events_done"]
    /\ UNCHANGED <<opts, firmware_config, boot, i, state, num_bytes_limit,
                   xfer, src, ret, g>>

Next ==
    \/ Setup
    \/ FillSubmit
    \/ FillEnd
    \/ LoopTop
    \/ PollFail
    \/ LoopExit
    \/ TransferComplete
    \/ HandleSignal
    \/ EventsDone

Spec == Init /\ [][Next]_vars

\* ------------------------------------------------------------ main
\* The run from the parsed command line on.  The options main hands to
\* do_stream (direction_in, block_size, disable_in_out, num_bytes_limit)
\* are kept where do_stream will put them, in state.  The runs taken are
\* those with -0 in either direction and HOST_TO_DEVICE runs reading a
\* stdin of one block and a byte; Spec covers the streams of every kind.
BlockSizes == {BlockSize, 2 * BlockSize}

MainInit ==
    /\ pc = "validate"
    /\ i = 0
    /\ num_bytes_limit \in Budgets
    /\ \E dir \in BOOLEAN, file \in BOOLEAN, bs \in BlockSizes :
          /\ dir => ~file
          /\ state = [InitState(dir, file, num_bytes_limit)
                         EXCEPT !.block_size = bs]
          /\ src \in (IF file THEN {bs + 1} ELSE {0})
    /\ xfer = [t \in Ids |->
                 [owner |-> "none", length |-> 0, cancel |-> FALSE, frees |-> 0]]
    /\ ret = FALSE
    /\ g = InitG(src)
    /\ ev = NoEv
    /\ boot \in {InitBoot(two) : two \in BOOLEAN}
    /\ opts = [DefaultOpts EXCEPT !.direction_in = state.direction_in]
    /\ firmware_config = ZeroConfig

\* The checks of lines 785-816 without the one of line 794.
validate_without_budget_check(limit, bs, args_ok) == args_ok

\* The checks of lines 785-816: args_ok stands for those on the firmware
\* path, on -d and -p, on the bus width and on the controller type.
validate(limit, bs, args_ok) ==
    /\ args_ok
    /\ ~(limit # UNLIMITED /\ limit % bs # 0)

\* Lines 785-877: the checks, then the packing of firmware_config.
Validate ==
    /\ pc = "validate"
    /\ \E args_ok \in BOOLEAN :
          /\ pc' = IF validate(num_bytes_limit, state.block_size, args_ok)
                   THEN "usb_init" ELSE "failed"
          /\ firmware_config' =
                 IF validate(num_bytes_limit, state.block_size, args_ok)
                 THEN pack(opts) ELSE firmware_config
          /\ ev' = [NoEv EXCEPT !.op = "validate", !.sub_ok = args_ok]
    /\ UNCHANGED <<opts, boot, i, state, num_bytes_limit, xfer, src, ret, g>>

\* libusb_init, lines 883-887.
UsbInit ==
    /\ pc = "usb_init"
    /\ \E ok \in BOOLEAN :
          /\ pc' = IF ok THEN "open" ELSE "failed"
          /\ ev' = [NoEv EXCEPT !.op = "libusb_init", !.sub_ok = ok]
    /\ boot' = [boot EXCEPT !.usb_init = TRUE]
    /\ UNCHANGED <<opts, firmware_config, i, state, num_bytes_limit, xfer,
                   src, ret, g>>

\* Lines 890-968: find the device, open it, claim interface 0.
OpenDevice ==
    /\ pc = "open"
    /\ \E outcome \in {"ok", "not_found", "open_failed", "claim_failed"} :
          /\ pc' = IF outcome = "ok" THEN "stage0" ELSE "failed"
          /\ boot' = [boot EXCEPT
                         !.opened = outcome \in {"ok", "claim_failed"}]
          /\ ev' = [NoEv EXCEPT !.op = "open", !.sub_ok = (outcome = "ok")]
    /\ UNCHANGED <<opts, firmware_config, i, state, num_bytes_limit, xfer,
                   src, ret, g>>

\* What can happen to one load_image; only what the path taken reads is
\* varied.
LoadInputs(callback) ==
    {in \in [img_ok : BOOLEAN, outcome : LoadOutcomes, cfg_ok : BOOLEAN] :
        /\ ~in.img_ok => (in.outcome = "ok" /\ in.cfg_ok)
        /\ ~in.cfg_ok => (callback /\ in.outcome # "upload_failed")}

\* The first load_image with the test of line 997 left out.
LoadStage0_ignores_status ==
    /\ pc = "stage0"
    /\ \E in \in LoadInputs(TRUE) :
          LET r == load_image(boot, in.img_ok, 0, TRUE, in.outcome, in.cfg_ok)
          IN /\ boot' = [r.b EXCEPT
                            !.load[0] = [run |-> TRUE, status |-> r.status]]
             /\ pc' = IF boot.two_stage /\ r.status = 0
                      THEN "stage1" ELSE "reopen"
             /\ ev' = [NoEv EXCEPT !.op = "load_stage0",
                                   !.sub_ok = (r.status = 0)]
    /\ UNCHANGED <<opts, firmware_config, i, state, num_bytes_limit, xfer,
                   src, ret, g>>

\* The first load_image of the run, lines 973-985: the firmware in a
\* single-stage run, the loader in a two-stage run; then, unless stage 1
\* follows, lines 993-997.
LoadStage0 ==
    /\ pc = "stage0"
    /\ \E in \in LoadInputs(TRUE) :
          LET r == load_image(boot, in.img_ok, 0, TRUE, in.outcome, in.cfg_ok)
          IN /\ boot' = [r.b EXCEPT
                            !.load[0] = [run |-> TRUE, status |-> r.status]]
             /\ pc' = IF boot.two_stage /\ r.status = 0 THEN "stage1"
                      ELSE IF r.status < 0 THEN "failed"
                      ELSE "reopen"
             /\ ev' = [NoEv EXCEPT !.op = "load_stage0",
                                   !.sub_ok = (r.status = 0)]
    /\ UNCHANGED <<opts, firmware_config, i, state, num_bytes_limit, xfer,
                   src, ret, g>>

\* The second load_image given pre_reset_callback as the first is.
LoadStage1_with_callback ==
    /\ pc = "stage1"
    /\ \E in \in LoadInputs(TRUE) :
          LET r == load_image(boot, in.img_ok, 1, TRUE, in.outcome, in.cfg_ok)
          IN /\ boot' = [r.b EXCEPT
                            !.load[1] = [run |-> TRUE, status |-> r.status]]
             /\ pc' = IF r.status < 0 THEN "failed" ELSE "reopen"
             /\ ev' = [NoEv EXCEPT !.op = "load_stage1",
                                   !.sub_ok = (r.status = 0)]
    /\ UNCHANGED <<opts, firmware_config, i, state, num_bytes_limit, xfer,
                   src, ret, g>>

\* The firmware of a two-stage run, lines 986-989, then lines 993-997.
LoadStage1 ==
    /\ pc = "stage1"
    /\ \E in \in LoadInputs(FALSE) :
          LET r == load_image(boot, in.img_ok, 1, FALSE, in.outcome, in.cfg_ok)
          IN /\ boot' = [r.b EXCEPT
                            !.load[1] = [run |-> TRUE, status |-> r.status]]
             /\ pc' = IF r.status < 0 THEN "failed" ELSE "reopen"
             /\ ev' = [NoEv EXCEPT !.op = "load_stage1",
                                   !.sub_ok = (r.status = 0)]
    /\ UNCHANGED <<opts, firmware_config, i, state, num_bytes_limit, xfer,
                   src, ret, g>>

\* The device is opened again for the data transfer, lines 1001-1013, and
\* do_stream is entered.
Reopen ==
    /\ pc = "reopen"
    /\ \E ok \in BOOLEAN :
          /\ pc' = IF ok THEN "setup" ELSE "failed"
          /\ ev' = [NoEv EXCEPT !.op = "reopen", !.sub_ok = ok]
    /\ UNCHANGED <<opts, firmware_config, boot, i, state, num_bytes_limit,
                   xfer, src, ret, g>>

MainNext ==
    \/ Validate
    \/ UsbInit
    \/ OpenDevice
    \/ LoadStage0
    \/ LoadStage1
    \/ Reopen
    \/ Next

MainSpec == MainInit /\ [][MainNext]_vars

\* main up to line 877 for every combination of the options that go into
\* firmware_config.
ConfigInit ==
    /\ pc = "validate"
    /\ i = 0
    /\ num_bytes_limit = UNLIMITED
    /\ opts \in AllOpts
    /\ state = InitState(opts.direction_in, TRUE, num_bytes_limit)
    /\ src = 0
    /\ xfer = [t \in Ids |->
                 [owner |-> "none", length |-> 0, cancel |-> FALSE, frees |-> 0]]
    /\ ret = FALSE
    /\ g = InitG(src)
    /\ ev = NoEv
    /\ boot = InitBoot(FALSE)
    /\ firmware_config = ZeroConfig

ConfigNext == Validate

ConfigSpec == ConfigInit /\ [][ConfigNext]_vars

\* do_stream lines 567-577, run with -v: the summary is printed when the
\* loop has been left with the abort latch clear.
SummaryPrinted == pc = "done" /\ ret /\ ~state.abort

\* The positions of main before do_stream is called.
BootPcs == {"validate", "usb_init", "open", "stage0", "stage1", "reopen"}
\* do_stream has been called.
StreamStarted == pc \notin BootPcs \cup {"failed"}
\* The uploads of the run: the firmware alone, or the loader and the
\* firmware when -l is given (lines 973-990).
StagesOfRun == IF boot.two_stage THEN Stages ELSE {0}

\* Every upload of the run has returned success.
BootSucceeded ==
    \A s \in StagesOfRun : boot.load[s].run /\ boot.load[s].status = 0

\* main, lines 1016-1025; exit(-1) of line 440 and return -1 of main.
ExitStatus ==
    IF pc \in {"killed", "failed"} THEN EXIT_FORCED
    ELSE IF ret THEN EXIT_SUCCESS ELSE EXIT_FAILURE

\* ------------------------------------------------------------ claims
\* Bytes the source of the stream can supply: stdin's content in
\* HOST_TO_DEVICE direction with a real source, no limit otherwise.
Supply == IF ~state.direction_in /\ state.file THEN g.src0 ELSE UNLIMITED

FatalCompletion(status, actual) ==
    (status # "COMPLETED" /\ status # "TIMED_OUT") \/ actual = 0

\* C1: no transfer is submitted, neither by the fill loop nor by a
\* resubmission from transfer_complete, in a state where the remaining
\* budget total_bytes_left_to_transfer is zero.
C1_NoSubmitAtZeroBudget ==
    [][state.total_bytes_left_to_transfer = 0
          => g'.nSubmits = g.nSubmits]_vars

\* C2: in a run without transfer error and without signal, the sum of
\* actual_length over the completed transfers never exceeds
\* min(budget, bytes the source can supply), and equals it when the
\* stream has ended.
C2_TotalIsMinOfBudgetAndSource ==
    g.nominal =>
        /\ state.total_bytes_transferred <= Min(num_bytes_limit, Supply)
        /\ (pc = "done" /\ ret) =>
               state.total_bytes_transferred = Min(num_bytes_limit, Supply)

\* C3: HOST_TO_DEVICE with a real source shorter than the budget, ending
\* inside a block, and no fault of the environment: the full blocks and one
\* final short transfer are submitted and nothing after it, and no fatal
\* path is taken (the abort latch stays clear).
C3_ShortSourceEndsCleanly ==
    (/\ ~state.direction_in
     /\ state.file
     /\ g.src0 < num_bytes_limit
     /\ g.src0 % BlockSize # 0
     /\ g.nominal) =>
        /\ g.nSubmits <= (g.src0 \div BlockSize) + 1
        /\ ~state.abort
        /\ ~g.fatal

\* C4: after abort_transfers was called with K transfers outstanding, at
\* most K callbacks run under the abort latch, no submission is made under
\* it, and once every callback was delivered exactly K have run and
\* submitted_transfers is zero.
C4_AbortConvergence ==
    state.abort =>
        /\ g.abort_cbs <= g.abortK
        /\ ~g.sub_abort
        /\ InFlight(xfer) = {} =>
               /\ g.abort_cbs = g.abortK
               /\ state.submitted_transfers = 0

\* C5: the abort flag is never reset, and no call of
\* libusb_submit_transfer is made while it is set.
C5_AbortIsLatch ==
    [][(state.abort => state'.abort) /\ ~g'.sub_abort]_vars

\* C6: HOST_TO_DEVICE, budget k blocks, source of exactly k blocks, no
\* fault of the environment: at most k submissions are made, resubmissions
\* counted, the budget is 0 after the k-th, and the run ends with k
\* submissions, an empty pool and exit status 0.
C6_ExactBudgetScenario ==
    (/\ ~state.direction_in
     /\ state.file
     /\ num_bytes_limit # UNLIMITED
     /\ g.src0 = num_bytes_limit
     /\ g.nominal) =>
        LET k == num_bytes_limit \div BlockSize
        IN /\ g.nSubmits <= k
           /\ g.nSubmits = k => state.total_bytes_left_to_transfer = 0
           /\ pc = "done" =>
                  /\ g.nSubmits = k
                  /\ state.submitted_transfers = 0
                  /\ ExitStatus = EXIT_SUCCESS

\* C7: once the stream has hit a fatal condition (error or empty
\* completion, short write, failed allocation, rejected submission, poll
\* failure) the process exit status is not 0.
C7_ExitStatusReportsFatal ==
    (pc \in {"done", "killed"} /\ g.fatal) => ExitStatus # EXIT_SUCCESS

\* C8: with the abort latch clear, a completion whose status is neither
\* completed nor timed-out, or whose actual_length is 0, frees the
\* transfer once, clears its pool slot, sets the abort latch, requests the
\* cancellation of every transfer still in the pool, and neither
\* resubmits nor touches the freed transfer again.
C8_FatalCompletionAborts ==
    [][(/\ ev'.op = "transfer_complete"
        /\ ~state.abort
        /\ FatalCompletion(ev'.status, ev'.actual)) =>
           /\ xfer'[ev'.t].owner = "freed"
           /\ xfer'[ev'.t].frees = 1
           /\ \A s \in Slots : state'.transfers[s] # ev'.t
           /\ state'.submitted_transfers = state.submitted_transfers - 1
           /\ state'.abort
           /\ \A s \in Slots :
                 state'.transfers[s] # NULL =>
                     /\ xfer'[state'.transfers[s]].cancel
                     /\ xfer'[state'.transfers[s]].owner = "device"
           /\ g'.nSubmits = g.nSubmits
           /\ ~g'.sub_abort
           /\ ~g'.uaf
           /\ state'.total_bytes_transferred = state.total_bytes_transferred]_vars

\* C8's case: an error completion under a clear latch while another
\* transfer is in the pool.
C8_Witness ==
    /\ ev.op = "transfer_complete"
    /\ ~ev.abort0
    /\ ev.status = "ERROR"
    /\ ev.actual > 0
    /\ \E s \in Slots : state.transfers[s] # NULL

\* C9: DEVICE_TO_HOST with a real sink: a short write makes the completion
\* fatal: the latch is set, the transfer is not resubmitted and its bytes
\* are not added to total_bytes_transferred.
C9_ShortWriteIsFatal ==
    [][(ev'.op = "transfer_complete" /\ ev'.fwrite_short) =>
           /\ state'.abort
           /\ g'.nSubmits = g.nSubmits
           /\ ~g'.sub_abort
           /\ state'.total_bytes_transferred = state.total_bytes_transferred]_vars

\* C10: every transfer that exists is owned by the USB subsystem between
\* two handlers, and a freed transfer is never submitted, read or freed
\* again.
C10_LinearOwnership ==
    /\ \A t \in Ids :
          /\ xfer[t].owner \in {"none", "device", "freed"}
          /\ xfer[t].frees <= 1
          /\ xfer[t].frees = 1 => xfer[t].owner = "freed"
    /\ ~g.uaf

\* C11: each of the first four signal records handle_signalfd consumes
\* sets the abort latch and requests the cancellation of every transfer
\* in the pool, frees nothing and goes back to the event loop; the fifth
\* ends the process at once, whatever is still outstanding.
C11_SignalEscalation ==
    [][ev'.op = "handle_signalfd" =>
           /\ state'.num_signals = state.num_signals + 1
           /\ state'.transfers = state.transfers
           /\ state'.submitted_transfers = state.submitted_transfers
           /\ g'.nSubmits = g.nSubmits
           /\ IF state'.num_signals < MAX_SIGNALS
              THEN /\ state'.abort
                   /\ \A s \in Slots :
                         state.transfers[s] # NULL =>
                             xfer'[state.transfers[s]].cancel
                   /\ pc' = "loop_top"
              ELSE /\ pc' = "killed"
                   /\ xfer' = xfer]_vars

\* C11's case: the fifth signal has ended the process while transfers
\* were outstanding.
C11_Witness ==
    /\ pc = "killed"
    /\ ev.op = "handle_signalfd"
    /\ state.num_signals = MAX_SIGNALS
    /\ state.abort
    /\ state.submitted_transfers > 0


\* C12: a failed submit_transfer (no buffer, no transfer, or a rejected
\* submission) leaves the stream state as it was: the same
\* total_bytes_left_to_transfer, the same submitted_transfers, the same
\* pool, a short read during the call included.
C12_FailedSubmitLeavesState ==
    [][(ev'.op = "submit_transfer" /\ ~ev'.sub_ok) =>
           /\ state'.total_bytes_left_to_transfer =
                  state.total_bytes_left_to_transfer
           /\ state'.submitted_transfers = state.submitted_transfers
           /\ state'.transfers = state.transfers]_vars

\* C18: when do_stream has left the event loop and torn the pool down,
\* no transfer is outstanding: submitted_transfers is 0 and every slot is
\* empty, however the loop ended.
C18_TeardownFindsPoolEmpty ==
    (pc = "done" /\ ev.op \in {"loop_exit", "poll_failed"}) =>
        /\ state.submitted_transfers = 0
        /\ \A s \in Slots : state.transfers[s] = NULL
        /\ InFlight(xfer) = {}

\* C19: a timed-out completion under a clear latch (the write to stdout
\* and the resubmission succeeding) is handled as a completed one,
\* whether it carried no bytes or part of them: the latch stays clear,
\* the bytes are counted and the transfer is resubmitted.
C19_TimedOutIsNormal ==
    [][(/\ ev'.op = "transfer_complete"
        /\ ~state.abort
        /\ ev'.status = "TIMED_OUT"
        /\ ~ev'.fwrite_short
        /\ ev'.sub_ok) =>
           /\ ~state'.abort
           /\ state'.total_bytes_transferred =
                  (state.total_bytes_transferred + ev'.actual) % Word
           /\ g'.nSubmits = g.nSubmits + 1
           /\ xfer'[ev'.t].owner = "device"
           /\ state'.submitted_transfers = state.submitted_transfers]_vars

\* C19, amended: the same for a timed-out completion that carried at
\* least one byte, a partial transfer included; one that carried no byte
\* is fatal like any empty completion.
C19_TimedOutWithBytesIsNormal ==
    [][(/\ ev'.op = "transfer_complete"
        /\ ~state.abort
        /\ ev'.status = "TIMED_OUT"
        /\ ev'.actual > 0
        /\ ~ev'.fwrite_short
        /\ ev'.sub_ok) =>
           /\ ~state'.abort
           /\ state'.total_bytes_transferred =
                  (state.total_bytes_transferred + ev'.actual) % Word
           /\ g'.nSubmits = g.nSubmits + 1
           /\ xfer'[ev'.t].owner = "device"
           /\ xfer'[ev'.t].frees = 0
           /\ state'.transfers = state.transfers
           /\ state'.submitted_transfers = state.submitted_transfers]_vars

\* C19's case: a timed-out transfer that carried part of its bytes has
\* been counted and resubmitted.
C19_Witness ==
    /\ ev.op = "transfer_complete"
    /\ ~ev.abort0
    /\ ev.status = "TIMED_OUT"
    /\ ev.actual > 0
    /\ ev.actual < BlockSize
    /\ ~ev.fwrite_short
    /\ ev.sub_ok
    /\ ~state.abort
    /\ xfer[ev.t].owner = "device"

\* C20: the summary of a verbose run is printed exactly on graceful
\* completions: a stream with something to transfer that ends with no
\* error, no failure and no signal leaves the loop with the latch clear
\* and prints it; a run that aborted does not.
C20_SummaryOnGracefulEnd ==
    (pc = "done" /\ ret) =>
        /\ (g.nominal /\ Supply > 0) => (~state.abort /\ SummaryPrinted)
        /\ state.abort => ~SummaryPrinted

\* C13: the bootstrap is over before streaming begins: do_stream is not
\* entered, no pool exists and no bulk transfer is submitted unless every
\* stage upload of the run has returned success; once a stage upload has
\* failed the process has ended with a non-zero status, nothing streamed.
C13_BootstrapBeforeStreaming ==
    /\ (\/ StreamStarted
        \/ g.nSubmits > 0
        \/ \E t \in Ids : xfer[t].owner # "none") =>
            \A s \in StagesOfRun :
                boot.load[s].run /\ boot.load[s].status = 0
    /\ (\E s \in Stages : boot.load[s].run /\ boot.load[s].status # 0) =>
            /\ pc = "failed"
            /\ g.nSubmits = 0
            /\ \A t \in Ids : xfer[t].owner = "none"
            /\ ExitStatus # EXIT_SUCCESS

\* C13's case: the loader went in, the upload of the firmware failed, and
\* the process has ended without streaming.
C13_Witness ==
    /\ pc = "failed"
    /\ boot.two_stage
    /\ boot.load[0].run /\ boot.load[0].status = 0
    /\ boot.load[1].run /\ boot.load[1].status < 0
    /\ g.nSubmits = 0

\* C14: once a control write of the bootstrap has failed, the write of
\* the configuration by pre_reset_callback included, the sequence is
\* over: main has left through err, so that no later stage is uploaded
\* and do_stream is not called, and the process ends with a failure
\* status.
C14_ControlWriteFailureAborts ==
    (boot.write_failed \/ boot.cfg_failed) =>
        /\ pc = "failed"
        /\ g.nSubmits = 0
        /\ ExitStatus # EXIT_SUCCESS

\* C15: in a run whose bootstrap succeeded, with one stage or two, the
\* configuration is written exactly once, by the upload of stage 0, and
\* before any bulk transfer is submitted; the upload of stage 1 never
\* writes it.
C15_ConfigWrittenOnceAtStage0 ==
    /\ 1 \notin boot.cfg_stages
    /\ BootSucceeded => /\ boot.cfg_writes = 1
                        /\ boot.cfg_stages = {0}
                        /\ boot.cfg_addr = 4099
    /\ (g.nSubmits > 0 \/ StreamStarted) =>
           (BootSucceeded /\ boot.cfg_writes = 1)

\* C15's case: a two-stage bootstrap succeeded and a bulk transfer has
\* been submitted.
C15_Witness ==
    /\ boot.two_stage
    /\ BootSucceeded
    /\ boot.load[1].run
    /\ boot.cfg_writes = 1
    /\ g.nSubmits > 0

\* C17: a run given a byte budget that is not a multiple of the block
\* size ends with a failure status at the checks of the command line:
\* libusb is not initialised, no device is opened, no control write and no
\* bulk submission is made.
C17_NonDivisibleBudgetRejected ==
    (num_bytes_limit # UNLIMITED /\ num_bytes_limit % state.block_size # 0) =>
        /\ pc \in {"validate", "failed"}
        /\ pc = "failed" => ExitStatus # EXIT_SUCCESS
        /\ ~boot.usb_init
        /\ ~boot.opened
        /\ ~boot.ctrl_io
        /\ boot.cfg_writes = 0
        /\ g.nSubmits = 0

\* C17's case: a command line with nothing else wrong has been rejected
\* for its budget.
C17_Witness ==
    /\ pc = "failed"
    /\ ev.op = "validate"
    /\ ev.sub_ok
    /\ num_bytes_limit # UNLIMITED
    /\ num_bytes_limit % state.block_size # 0

\* C16: the six bytes of firmware_config determine the options they were
\* packed from: reading the bytes back gives direction, clock source and
\* speed, IFCLK output and inversion, async bus, bus width, buffering
\* depth, CPU frequency, CLKOUT enable and inversion and the six pin
\* polarities exactly, so no two combinations share their six bytes.
C16_PackingIsLossless ==
    pc = "usb_init" =>
        /\ \A k \in 0 .. 5 : firmware_config[k] \in 0 .. 255
        /\ decode(firmware_config) = opts

\* C16's case: a combination far from the defaults has been packed.
C16_Witness ==
    /\ pc = "usb_init"
    /\ ~opts.direction_in
    /\ opts.use_8bit_bus
    /\ opts.use_external_ifclk
    /\ opts.num_buffers = 2
    /\ opts.cpu_mhz = MHZ12
    /\ firmware_config[5] = 63
    /\ firmware_config[3] = 16

\* C21: HOST_TO_DEVICE with a real source that is already exhausted:
\* submit_transfer fails: it returns no transfer, submits nothing and
\* leaves submitted_transfers as it was.
C21_ExhaustedSourceFailsSubmit ==
    [][(/\ ev'.op = "submit_transfer"
        /\ ~state.direction_in
        /\ state.file
        /\ src = 0) =>
           /\ state'.transfers[ev'.t] = NULL
           /\ g'.nSubmits = g.nSubmits
           /\ state'.submitted_transfers = state.submitted_transfers]_vars

\* C22: DEVICE_TO_HOST, latch clear: a completed transfer that carried
\* bytes, its write taken whole by the sink and its resubmission
\* accepted, writes exactly actual_length bytes to the sink (none in
\* discard mode), adds exactly actual_length to total_bytes_transferred
\* and is submitted again, the same transfer in the same slot, so that as
\* many transfers are outstanding after the completion as before.
C22_InCompletionDrainsCountsResubmits ==
    [][(/\ ev'.op = "transfer_complete"
        /\ ~state.abort
        /\ state.direction_in
        /\ ev'.status = "COMPLETED"
        /\ ev'.actual > 0
        /\ ~ev'.fwrite_short
        /\ ev'.sub_ok) =>
           /\ ev'.wrote = IF state.file THEN ev'.actual ELSE 0
           /\ state'.total_bytes_transferred =
                  (state.total_bytes_transferred + ev'.actual) % Word
           /\ g'.nSubmits = g.nSubmits + 1
           /\ xfer'[ev'.t].owner = "device"
           /\ xfer'[ev'.t].frees = 0
           /\ xfer'[ev'.t].length = xfer[ev'.t].length
           /\ state'.transfers = state.transfers
           /\ state'.submitted_transfers = state.submitted_transfers
           /\ InFlight(xfer') = InFlight(xfer)
           /\ ~state'.abort]_vars

\* C22's case: a completed DEVICE_TO_HOST transfer that carried fewer bytes
\* than asked for has been written to stdout and submitted again.
C22_Witness ==
    /\ ev.op = "transfer_complete"
    /\ ~ev.abort0
    /\ state.direction_in
    /\ state.file
    /\ ev.status = "COMPLETED"
    /\ ev.actual > 0
    /\ ev.actual < xfer[ev.t].length
    /\ ev.wrote = ev.actual
    /\ xfer[ev.t].owner = "device"
    /\ ~state.abort

\* C23: on every path of transfer_complete that reaches the resubmission,
\* a resubmission the USB subsystem rejects leaves the transfer freed
\* exactly once, its slot cleared, submitted_transfers one lower, and the
\* abort latch set with the rest of the pool cancelled.
C23_RejectedResubmissionFreesOnce ==
    [][(/\ ev'.op = "transfer_complete"
        /\ ~state.abort
        /\ ~FatalCompletion(ev'.status, ev'.actual)
        /\ g'.nSubmits = g.nSubmits
        /\ pc' # "crashed") =>
           /\ xfer'[ev'.t].owner = "freed"
           /\ xfer'[ev'.t].frees = 1
           /\ \A s \in Slots : state'.transfers[s] # ev'.t
           /\ state'.submitted_transfers = state.submitted_transfers - 1
           /\ state'.abort
           /\ \A s \in Slots :
                 state'.transfers[s] # NULL =>
                     xfer'[state'.transfers[s]].cancel]_vars

\* C24: between the steps of the stream (fill, completion callback,
\* signal) submitted_transfers is the number of non-empty slots of the
\* transfers array and lies in 0 .. NUM_TRANSFERS; it is never negative.
C24_CounterMatchesSlots ==
    pc # "crashed" =>
        /\ state.submitted_transfers = Cardinality(Outstanding(World))
        /\ state.submitted_transfers >= 0
        /\ state.submitted_transfers <= NUM_TRANSFERS

\* C25: the remaining budget never wraps: a budget being UNLIMITED or a
\* multiple of the block size, every subtraction of submit_transfer takes
\* a length that is at most the budget it is taken from, which is the
\* short read count where prepare_out_buffer has just overwritten it.
C25_BudgetNeverWraps ==
    [][(ev'.op = "submit_transfer" /\ ev'.sub_ok) =>
           LET n == xfer'[ev'.t].length
               left == IF /\ ~state.direction_in
                          /\ state.file
                          /\ n # state.block_size
                       THEN n
                       ELSE state.total_bytes_left_to_transfer
           IN /\ n <= left
              /\ state'.total_bytes_left_to_transfer = left - n]_vars

\* C25's case: with an unlimited budget a short read of at least one
\* byte has been submitted, and the budget is 0.
C25_Witness ==
    /\ ev.op = "submit_transfer"
    /\ ev.sub_ok
    /\ num_bytes_limit = UNLIMITED
    /\ ~state.direction_in
    /\ state.file
    /\ xfer[ev.t].length > 0
    /\ xfer[ev.t].length < state.block_size
    /\ state.total_bytes_left_to_transfer = 0

=============================================================================
